---------------------------- MODULE Spec2Model ----------------------------
(***************************************************************************)
(* RepoPacker: the entry classifier, the archive walker, the tree renderer *)
(* and the document packer of utils/zipProcessor (src/unnamed/part_000),   *)
(* and the App component that drives them (src/unnamed/part_002).          *)
(*                                                                         *)
(* Strings.  A JavaScript string is modelled as a sequence of atoms.  An   *)
(* atom is a TLA+ string standing for a run of characters that contains    *)
(* none of the delimiters the code looks for; each delimiter (the slash,   *)
(* the dot, the backtick, the line break) is an atom of its own.  So       *)
(* split, toLowerCase, match, repeat, trim and TextEncoder.encode are      *)
(* computed on sequences of atoms, as the code computes them on characters.*)
(* Atoms are plain ASCII; the box-drawing characters of the tree renderer   *)
(* and the non-ASCII content characters are written with ASCII stand-ins   *)
(* (see BRANCH, LAST, VBAR, and Utf8Bytes).                                *)
(***************************************************************************)
EXTENDS Integers, Sequences, FiniteSets, TLC

VARIABLES
    state,           \* App: the ProcessingState held by useState
    pc,              \* position of the handleProcess / processZipFile run
    file,            \* the File given to handleProcess
    files,           \* processZipFile: const files: ProcessedFile[]
    paths,           \* processZipFile: const paths: string[]
    totalSize,       \* processZipFile: let totalSize
    processedCount,  \* processZipFile: let processedCount
    progressLog,     \* the percents passed to onProgress in this run, in order
    result,          \* what processZipFile resolved with, or NoResult
    blob,            \* the markdown handed to new Blob, or NoBlob
    arg,             \* input of the pure function under check
    ret              \* its output, or NotCalled

appVars == <<state, pc, file, files, paths, totalSize, processedCount,
             progressLog, result, blob>>
pureVars == <<arg, ret>>
vars == <<state, pc, file, files, paths, totalSize, processedCount,
          progressLog, result, blob, arg, ret>>

----------------------------------------------------------------------------
(* String primitives *)

SLASH == "/"
DOT == "."
TICK == "BACKTICK"      \* stands for the backtick character
NL == "\n"

Last(s) == s[Len(s)]

Max(a, b) == IF a >= b THEN a ELSE b

\* String.prototype.split(sep) for a one-character separator: never empty,
\* the empty string splits to one empty segment.
RECURSIVE Split(_, _)
Split(s, sep) ==
    IF \A i \in 1..Len(s) : s[i] # sep
    THEN <<s>>
    ELSE LET k == CHOOSE i \in 1..Len(s) :
                      s[i] = sep /\ \A j \in 1..(i - 1) : s[j] # sep
         IN  <<SubSeq(s, 1, k - 1)>> \o Split(SubSeq(s, k + 1, Len(s)), sep)

\* Array.prototype.join(sep)
RECURSIVE Join(_, _)
Join(segs, sep) ==
    IF Len(segs) = 0 THEN <<>>
    ELSE IF Len(segs) = 1 THEN segs[1]
    ELSE segs[1] \o <<sep>> \o Join(Tail(segs), sep)

\* String.prototype.toLowerCase(), atom by atom.  Only the atoms that occur
\* in the inputs with upper-case letters are listed; the others are already
\* lower case or have no letters.
ToLowerAtom(a) ==
    CASE a = "BIN" -> "bin"
      [] a = "Makefile" -> "makefile"
      [] a = "MAKEFILE" -> "makefile"
      [] a = "Dockerfile" -> "dockerfile"
      [] a = "Jenkinsfile" -> "jenkinsfile"
      [] a = "MAIN" -> "main"
      [] a = "TS" -> "ts"
      [] a = "README" -> "readme"
      [] a = "DS_Store" -> "ds_store"
      [] OTHER -> a

toLowerCase(s) == [i \in 1..Len(s) |-> ToLowerAtom(s[i])]

----------------------------------------------------------------------------
(* Entry classifier *)

TEXT_EXTENSIONS ==
    { <<"js">>, <<"jsx">>, <<"ts">>, <<"tsx">>, <<"json">>, <<"css">>,
      <<"scss">>, <<"html">>, <<"md">>, <<"txt">>, <<"py">>, <<"java">>,
      <<"c">>, <<"cpp">>, <<"h">>, <<"cs">>, <<"go">>, <<"rs">>, <<"php">>,
      <<"rb">>, <<"sh">>, <<"yaml">>, <<"yml">>, <<"xml">>, <<"sql">>,
      <<"gitignore">>, <<"env">>, <<"dockerfile">>, <<"toml">>,
      <<"gradle">>, <<"properties">> }

IGNORE_DIRS ==
    { <<DOT, "git">>, <<"node_modules">>, <<"dist">>, <<"build">>,
      <<"coverage">>, <<DOT, "idea">>, <<DOT, "vscode">>, <<"__pycache__">>,
      <<"bin">>, <<"obj">> }

IGNORE_FILES ==
    { <<"package-lock", DOT, "json">>, <<"yarn", DOT, "lock">>,
      <<"pnpm-lock", DOT, "yaml">>, <<DOT, "DS_Store">>,
      <<"thumbs", DOT, "db">> }

EXTENSIONLESS ==
    { <<"dockerfile">>, <<"makefile">>, <<"license">>, <<"jenkinsfile">>,
      <<"vagrantfile">> }

\* The earlier revision of isTextFile (part_001): the whole path is split on
\* the dot, so a name without a dot is its own extension.
isTextFileEarlier(filename) ==
    LET parts == Split(filename, DOT)
        ext == toLowerCase(Last(parts))
        rest == SubSeq(parts, 1, Len(parts) - 1)
    IN  IF ext = <<>> THEN FALSE
        ELSE IF toLowerCase(Join(rest, DOT)) \in
                    {<<"dockerfile">>, <<"makefile">>, <<"license">>}
             THEN TRUE
             ELSE ext \in TEXT_EXTENSIONS

isTextFile(filename) ==
    LET basename == toLowerCase(Last(Split(filename, SLASH)))
    IN  IF basename = <<>> THEN FALSE
        ELSE IF basename \in EXTENSIONLESS THEN TRUE
        ELSE LET parts == Split(basename, DOT)
             IN  IF Len(parts) = 1 THEN FALSE
                 ELSE LET ext == Last(parts)
                      IN  IF ext # <<>> THEN ext \in TEXT_EXTENSIONS
                          ELSE FALSE

\* A plausible slip: the ignored file names looked up in every segment.
shouldIgnoreAnySegment(path) ==
    LET parts == Split(path, SLASH)
    IN  \E i \in 1..Len(parts) :
            parts[i] \in IGNORE_DIRS \/ parts[i] \in IGNORE_FILES

shouldIgnore(path) ==
    LET parts == Split(path, SLASH)
    IN  IF \E i \in 1..Len(parts) : parts[i] \in IGNORE_DIRS THEN TRUE
        ELSE LET filename == parts[Len(parts)]
             IN  IF filename \in IGNORE_FILES THEN TRUE ELSE FALSE

----------------------------------------------------------------------------
(* The App state before any file is chosen (useState initial value), and   *)
(* the walker with no run in progress.                                     *)

\* undefined, for each optional value (a record, so that it compares with
\* the records and sequences that take its place)
NoStats == [undefined |-> "stats"]
NoUrl == "undefined"
NoError == "undefined"
NoName == <<>>
NoFile == [undefined |-> "file"]
NoResult == [undefined |-> "result"]
NoBlob == <<>>
NotCalled == [fn |-> "none"]

IdleState ==
    [status |-> "IDLE", progress |-> 0, error |-> NoError,
     resultUrl |-> NoUrl, fileName |-> NoName, stats |-> NoStats]

AppInit ==
    /\ state = IdleState
    /\ pc = "idle"
    /\ file = NoFile
    /\ files = <<>>
    /\ paths = <<>>
    /\ totalSize = 0
    /\ processedCount = 0
    /\ progressLog = <<>>
    /\ result = NoResult
    /\ blob = NoBlob

PureIdle ==
    /\ arg = <<>>
    /\ ret = NotCalled

----------------------------------------------------------------------------
(* Specification SpecClassify: the two classifier predicates applied to    *)
(* every path of at most MaxDepth segments drawn from ClassifySegments.    *)

MaxDepth == 3

ClassifySegments ==
    { <<>>, <<"src">>, <<"lib", DOT, "d">>, <<DOT, "git">>, <<"BIN">>,
      <<"yarn", DOT, "lock">>, <<"Makefile">>, <<"MAKEFILE">>,
      <<"Jenkinsfile">>, <<"main", DOT, "ts">>, <<"MAIN", DOT, "TS">>,
      <<"README">>, <<"notes", DOT>>, <<"logo", DOT, "png">> }

ClassifyPaths ==
    { Join(segs, SLASH) :
        segs \in UNION { [1..n -> ClassifySegments] : n \in 1..MaxDepth } }

ClassifyInit ==
    /\ AppInit
    /\ arg \in ClassifyPaths
    /\ ret = NotCalled

CallShouldIgnore ==
    /\ ret = NotCalled
    /\ ret' = [fn |-> "shouldIgnore", value |-> shouldIgnore(arg)]
    /\ UNCHANGED <<arg, appVars>>

CallIsTextFile ==
    /\ ret = NotCalled
    /\ ret' = [fn |-> "isTextFile", value |-> isTextFile(arg)]
    /\ UNCHANGED <<arg, appVars>>

ClassifyNext == CallShouldIgnore \/ CallIsTextFile

SpecClassify == ClassifyInit /\ [][ClassifyNext]_vars

\* The segments of a path, read off the path itself: p[i..j] is a segment
\* when it holds no slash and is bounded on each side by a slash or by the
\* end of the path (j = i - 1 is the empty segment).
IsSegment(p, i, j) ==
    /\ i \in 1..(Len(p) + 1)
    /\ j \in (i - 1)..Len(p)
    /\ \A k \in i..j : p[k] # SLASH
    /\ i = 1 \/ p[i - 1] = SLASH
    /\ j = Len(p) \/ p[j + 1] = SLASH

SomeSegmentIn(p, S) ==
    \E i \in 1..(Len(p) + 1), j \in 0..Len(p) :
        IsSegment(p, i, j) /\ SubSeq(p, i, j) \in S

LastIndexOf(p, c) ==
    IF \E i \in 1..Len(p) : p[i] = c
    THEN CHOOSE i \in 1..Len(p) :
             p[i] = c /\ \A j \in (i + 1)..Len(p) : p[j] # c
    ELSE 0

FinalSegment(p) == SubSeq(p, LastIndexOf(p, SLASH) + 1, Len(p))

AfterFinalDot(b) == SubSeq(b, LastIndexOf(b, DOT) + 1, Len(b))

\* C3: shouldIgnore(p) is true exactly when some slash-delimited segment of
\* p equals an ignored directory name or the final segment equals an ignored
\* file name, case-sensitively, at any depth and with leading or trailing
\* slashes; the empty path gives false.
C3_ShouldIgnoreIff ==
    ret.fn = "shouldIgnore" =>
        /\ ret.value \in BOOLEAN
        /\ ret.value = ( \/ SomeSegmentIn(arg, IGNORE_DIRS)
                         \/ FinalSegment(arg) \in IGNORE_FILES )
        /\ arg = <<>> => ret.value = FALSE

\* An ignored directory in the middle of a three-segment path with a
\* leading slash has been classified as ignored, ...
C3_Witness ==
    /\ ret.fn = "shouldIgnore"
    /\ arg = <<SLASH, DOT, "git", SLASH, "main", DOT, "ts">>
    /\ ret.value = TRUE

\* C4: isTextFile(p) is true exactly when the lower-cased basename is a
\* known extensionless text name, or the basename has a dot and the
\* lower-cased text after its final dot is an allowed extension; so a path
\* classifies as its lower-cased bare basename does, whatever the case of
\* its letters and whatever the directory segments hold.
C4_IsTextFileIff ==
    ret.fn = "isTextFile" =>
        LET base == FinalSegment(arg)
        IN  /\ ret.value =
                 ( \/ toLowerCase(base) \in EXTENSIONLESS
                   \/ /\ \E k \in 1..Len(base) : base[k] = DOT
                      /\ toLowerCase(AfterFinalDot(base)) \in TEXT_EXTENSIONS )
            /\ ( /\ \A k \in 1..Len(base) : base[k] # DOT
                 /\ toLowerCase(base) \notin EXTENSIONLESS ) => ret.value = FALSE
            /\ ret.value = isTextFile(toLowerCase(base))

\* An upper-case Makefile below a directory whose name has a dot has been
\* classified as text.
C4_Witness ==
    /\ ret.fn = "isTextFile"
    /\ arg = <<"lib", DOT, "d", SLASH, "MAKEFILE">>
    /\ ret.value = TRUE

----------------------------------------------------------------------------
(* Document packer *)

Repeat(a, n) == [i \in 1..n |-> a]

RECURSIVE Concat(_)
Concat(ss) == IF Len(ss) = 0 THEN <<>> ELSE Head(ss) \o Concat(Tail(ss))

\* content.match(/`+/g): the lengths of the maximal backtick runs, left to
\* right (no match is the empty sequence).
RECURSIVE BacktickMatches(_)
BacktickMatches(content) ==
    IF Len(content) = 0 THEN <<>>
    ELSE IF content[1] # TICK THEN BacktickMatches(Tail(content))
    ELSE LET n == CHOOSE k \in 1..Len(content) :
                      /\ \A j \in 1..k : content[j] = TICK
                      /\ k = Len(content) \/ content[k + 1] # TICK
         IN  <<n>> \o BacktickMatches(SubSeq(content, n + 1, Len(content)))

\* A plausible slip in the comparison: a run as long as the fence is let by.
BumpFenceStrict(fenceLength, matchLength) ==
    IF matchLength > fenceLength THEN matchLength + 1 ELSE fenceLength

\* if (match.length >= fenceLength) fenceLength = match.length + 1
BumpFence(fenceLength, matchLength) ==
    IF matchLength >= fenceLength THEN matchLength + 1 ELSE fenceLength

RECURSIVE ScanMatches(_, _)
ScanMatches(fenceLength, matches) ==
    IF Len(matches) = 0 THEN fenceLength
    ELSE ScanMatches(BumpFence(fenceLength, Head(matches)), Tail(matches))

BASE_FENCE == 3

\* A plausible slip: fenceLength declared outside files.forEach, so that it
\* carries over from one file to the next.
RECURSIVE SharedFenceFrom(_, _)
SharedFenceFrom(fenceLength, fs) ==
    IF Len(fs) = 0 THEN <<>>
    ELSE LET n == ScanMatches(fenceLength, BacktickMatches(Head(fs).content))
         IN  <<n>> \o SharedFenceFrom(n, Tail(fs))

FenceLengthsShared(fs) == SharedFenceFrom(BASE_FENCE, fs)

\* The value of fenceLength at line 194, for each file in turn.
FenceLengths(fs) ==
    [i \in 1..Len(fs) |->
        ScanMatches(BASE_FENCE, BacktickMatches(fs[i].content))]

\* The text one iteration of files.forEach appends to md.
FileSection(f, fenceLength) ==
    LET fence == Repeat(TICK, fenceLength)
    IN  <<"### ">> \o f.path \o <<NL>>
        \o fence \o f.extension \o <<NL>>
        \o f.content
        \o <<NL>> \o fence \o <<NL, NL>>

MdHeader(repoName, tree) ==
    <<"# Project: ">> \o repoName \o <<NL, NL>>
    \o <<"## Project Structure", NL, NL, TICK, TICK, TICK, NL>>
    \o tree \o <<NL, TICK, TICK, TICK, NL, NL>>
    \o <<"## File Contents", NL, NL>>

MdSections(fs) ==
    LET lens == FenceLengths(fs)
    IN  [i \in 1..Len(fs) |-> FileSection(fs[i], lens[i])]

createMarkdownContent(repoName, tree, fs) ==
    MdHeader(repoName, tree) \o Concat(MdSections(fs))

----------------------------------------------------------------------------
(* Specification SpecPack: createMarkdownContent applied to every list of  *)
(* at most MaxPackFiles files whose contents are the strings of at most    *)
(* MaxContentLen atoms over a backtick and a letter.                       *)

MaxContentLen == 4
MaxPackFiles == 2

PackContents ==
    UNION { [1..n -> {TICK, "x"}] : n \in 0..MaxContentLen }

PackNames == <<"a", "b", "c", "d">>

PackFile(i, c) ==
    [path |-> <<PackNames[i], DOT, "md">>, content |-> c,
     extension |-> <<"md">>]

PackInit ==
    /\ AppInit
    /\ \E n \in 0..MaxPackFiles :
         \E cs \in [1..n -> PackContents] :
            arg = [repoName |-> <<"repo">>, tree |-> <<"tree">>,
                   files |-> [i \in 1..n |-> PackFile(i, cs[i])]]
    /\ ret = NotCalled

CallCreateMarkdownContent ==
    /\ ret = NotCalled
    /\ ret' = [fn |-> "createMarkdownContent",
               sections |-> MdSections(arg.files),
               value |-> createMarkdownContent(arg.repoName, arg.tree,
                                               arg.files)]
    /\ UNCHANGED <<arg, appVars>>

PackNext == CallCreateMarkdownContent

SpecPack == PackInit /\ [][PackNext]_vars

\* The fence of a section, read off its text: the backticks that follow the
\* heading line.
SectionFenceLength(f, text) ==
    LET start == 1 + Len(f.path) + 1
    IN  CHOOSE n \in 0..Len(text) :
            /\ \A j \in 1..n : text[start + j] = TICK
            /\ text[start + n + 1] # TICK

\* content holds n backticks in a row somewhere
HasRun(content, n) ==
    \E k \in 1..(Len(content) - n + 1) :
        \A j \in k..(k + n - 1) : content[j] = TICK

LongestRun(content) ==
    CHOOSE n \in 0..Len(content) :
        (n = 0 \/ HasRun(content, n)) /\ ~HasRun(content, n + 1)

\* C1: the fence of every file section is strictly longer than every run of
\* backticks in that file content: the content holds no run of backticks as
\* long as the fence, which opens and closes the section.
C1_FenceLongerThanRuns ==
    ret.fn = "createMarkdownContent" =>
        \A i \in 1..Len(arg.files) :
            LET text == ret.sections[i]
                n == SectionFenceLength(arg.files[i], text)
            IN  /\ n >= 1
                /\ ~HasRun(arg.files[i].content, n)
                /\ SubSeq(text, Len(text) - n - 2, Len(text))
                     = <<NL>> \o Repeat(TICK, n) \o <<NL, NL>>

\* A content holding a run of exactly three backticks has been packed.
C1_Witness ==
    /\ ret.fn = "createMarkdownContent"
    /\ Len(arg.files) = 1
    /\ arg.files[1].content = <<"x", TICK, TICK, TICK>>
    /\ SectionFenceLength(arg.files[1], ret.sections[1]) = 4

\* C2: the fence length of each section is max(3, 1 + the longest backtick
\* run of that file content), whatever the other files hold and whatever
\* their order.
C2_FencePerFile ==
    ret.fn = "createMarkdownContent" =>
        \A i \in 1..Len(arg.files) :
            SectionFenceLength(arg.files[i], ret.sections[i])
                = Max(3, 1 + LongestRun(arg.files[i].content))

\* A file with a run of four backticks, packed before a sibling without
\* backticks: fences of five and of three.
C2_Witness ==
    /\ ret.fn = "createMarkdownContent"
    /\ Len(arg.files) = 2
    /\ arg.files[1].content = <<TICK, TICK, TICK, TICK>>
    /\ arg.files[2].content = <<"x">>
    /\ SectionFenceLength(arg.files[1], ret.sections[1]) = 5
    /\ SectionFenceLength(arg.files[2], ret.sections[2]) = 3

----------------------------------------------------------------------------
(* Tree renderer *)

\* The connectors and indentations of printTree.  The box-drawing
\* characters are written in ASCII: BRANCH is the tee connector, LAST the
\* corner connector, VBAR the vertical continuation, BLANK four spaces.
BRANCH == "|-- "
LAST == "L-- "
VBAR == "|   "
BLANK == "    "

\* Property names every object literal inherits from Object.prototype with a
\* truthy value; constructor stands for them.
OBJECT_PROTOTYPE_KEYS == { <<"constructor">> }

\* The atoms of path segments in the order of their UTF-16 code units, which
\* is the order of Array.prototype.sort() without a comparator.  Segments
\* are compared atom by atom.
ATOM_ORDER ==
    << DOT, "BIN", "Dockerfile", "Jenkinsfile", "MAIN", "MAKEFILE",
       "Makefile", "README", "TS", "a", "b", "bad", "c", "constructor", "d",
       "git", "lib", "lock", "logo", "main", "md", "node_modules", "notes",
       "png", "src", "ts", "yarn" >>

AtomRank(a) == CHOOSE i \in 1..Len(ATOM_ORDER) : ATOM_ORDER[i] = a

\* k1 < k2 as strings
RECURSIVE KeyLess(_, _)
KeyLess(k1, k2) ==
    IF Len(k2) = 0 THEN FALSE
    ELSE IF Len(k1) = 0 THEN TRUE
    ELSE IF Head(k1) = Head(k2) THEN KeyLess(Tail(k1), Tail(k2))
    ELSE AtomRank(Head(k1)) < AtomRank(Head(k2))

\* Object.keys(node).sort()
RECURSIVE SortKeys(_)
SortKeys(keys) ==
    IF keys = {} THEN <<>>
    ELSE LET least == CHOOSE k \in keys :
                          \A other \in keys \ {k} : KeyLess(k, other)
         IN  <<least>> \o SortKeys(keys \ {least})

\* The object built at lines 56-68 is modelled by the set of the key chains
\* of its own properties: <<k1, .., kn>> is in the set when
\* tree[k1]..[kn] is an own property.  The keys of the node at chain kp:
ChildKeys(tree, kp) ==
    { Last(c) : c \in { c \in tree : Len(c) = Len(kp) + 1
                                     /\ SubSeq(c, 1, Len(kp)) = kp } }

\* parts.forEach at lines 62-67.  current is a node of the tree (on), or an
\* object reached through an inherited property, which is no part of the
\* tree: what is written below it never shows in Object.keys(tree).
RECURSIVE InsertParts(_, _, _)
InsertParts(tree, current, parts) ==
    IF Len(parts) = 0 THEN tree
    ELSE IF ~current.on THEN tree
    ELSE LET part == Head(parts)
             child == Append(current.at, part)
         IN  IF child \in tree
             THEN InsertParts(tree, [on |-> TRUE, at |-> child], Tail(parts))
             ELSE IF part \in OBJECT_PROTOTYPE_KEYS
             THEN InsertParts(tree, [on |-> FALSE], Tail(parts))
             ELSE InsertParts(tree \cup {child},
                              [on |-> TRUE, at |-> child], Tail(parts))

\* paths.forEach at lines 59-68
RECURSIVE BuildTree(_, _)
BuildTree(tree, ps) ==
    IF Len(ps) = 0 THEN tree
    ELSE BuildTree(
             InsertParts(tree, [on |-> TRUE, at |-> <<>>],
                         Split(Head(ps), SLASH)),
             Tail(ps))

RECURSIVE printTree(_, _, _)
RECURSIVE PrintKeys(_, _, _, _, _)
PrintKeys(tree, kp, prefix, keys, index) ==
    IF index > Len(keys) THEN <<>>
    ELSE LET key == keys[index]
             isLast == index = Len(keys)
             connector == IF isLast THEN LAST ELSE BRANCH
             childPrefix == IF isLast THEN BLANK ELSE VBAR
             isFile == ChildKeys(tree, Append(kp, key)) = {}
             line == prefix \o <<connector>> \o key
                     \o (IF isFile THEN <<>> ELSE <<SLASH>>) \o <<NL>>
             below == IF isFile THEN <<>>
                      ELSE printTree(tree, Append(kp, key),
                                     Append(prefix, childPrefix))
         IN  line \o below \o PrintKeys(tree, kp, prefix, keys, index + 1)

printTree(tree, kp, prefix) ==
    PrintKeys(tree, kp, prefix, SortKeys(ChildKeys(tree, kp)), 1)

\* String.prototype.trim(): the white-space atoms are the line break and the
\* blank indentation (no key of the inputs is empty or has spaces).
WHITESPACE == { NL, BLANK }

RECURSIVE TrimStart(_)
TrimStart(s) ==
    IF Len(s) > 0 /\ Head(s) \in WHITESPACE THEN TrimStart(Tail(s)) ELSE s

RECURSIVE TrimEnd(_)
TrimEnd(s) ==
    IF Len(s) > 0 /\ Last(s) \in WHITESPACE
    THEN TrimEnd(SubSeq(s, 1, Len(s) - 1)) ELSE s

Trim(s) == TrimEnd(TrimStart(s))

generateTreeString(ps) == Trim(printTree(BuildTree({}, ps), <<>>, <<>>))

----------------------------------------------------------------------------
(* Specification SpecTree: generateTreeString applied to every list of at  *)
(* most MaxTreePaths paths of at most MaxTreeDepth segments.               *)

MaxTreeDepth == 3
MaxTreePaths == 2

TreeSegments == { <<"a">>, <<"b">>, <<"constructor">> }

TreePaths ==
    { Join(segs, SLASH) :
        segs \in UNION { [1..n -> TreeSegments] : n \in 1..MaxTreeDepth } }

TreeInit ==
    /\ AppInit
    /\ arg \in UNION { [1..n -> TreePaths] : n \in 0..MaxTreePaths }
    /\ ret = NotCalled

CallGenerateTreeString ==
    /\ ret = NotCalled
    /\ ret' = [fn |-> "generateTreeString", value |-> generateTreeString(arg)]
    /\ UNCHANGED <<arg, appVars>>

TreeNext == CallGenerateTreeString

SpecTree == TreeInit /\ [][TreeNext]_vars

\* The connector/indentation grammar of a rendered line: one indentation
\* unit per depth level, a connector, the name, and a slash after the name
\* of a directory.
LineDepth(line) ==
    CHOOSE d \in 0..Len(line) :
        /\ \A j \in 1..d : line[j] \in {VBAR, BLANK}
        /\ d < Len(line) => line[d + 1] \notin {VBAR, BLANK}

LineIsDir(line) == Last(line) = SLASH

LineName(line) ==
    SubSeq(line, LineDepth(line) + 2,
           IF LineIsDir(line) THEN Len(line) - 1 ELSE Len(line))

WellFormedLine(line) ==
    /\ Len(line) >= LineDepth(line) + 2
    /\ line[LineDepth(line) + 1] \in {BRANCH, LAST}

TreeLines(out) == SelectSeq(Split(out, NL), LAMBDA l : l # <<>>)

\* The name of the directory a line hangs below at depth d: the nearest
\* line above it at that depth.
AncestorAt(lines, i, d) ==
    LET j == CHOOSE j \in 1..(i - 1) :
                 /\ LineDepth(lines[j]) = d
                 /\ \A k \in (j + 1)..(i - 1) : LineDepth(lines[k]) # d
    IN  LineName(lines[j])

LeafPath(lines, i) ==
    LET d == LineDepth(lines[i])
    IN  Join([k \in 1..(d + 1) |->
                 IF k <= d THEN AncestorAt(lines, i, k - 1)
                 ELSE LineName(lines[i])], SLASH)

ParseTree(out) ==
    LET lines == TreeLines(out)
    IN  { LeafPath(lines, i) :
            i \in { i \in 1..Len(lines) : ~LineIsDir(lines[i]) } }

Range(f) == { f[i] : i \in DOMAIN f }

IsSegmentPrefix(p, q) ==
    LET ps == Split(p, SLASH)
        qs == Split(q, SLASH)
    IN  Len(ps) < Len(qs) /\ SubSeq(qs, 1, Len(ps)) = ps

NonConflicting(ps) ==
    \A p \in Range(ps), q \in Range(ps) : ~IsSegmentPrefix(p, q)

\* C8: for paths none of which is a proper segment-prefix of another,
\* reading the rendered tree back by its connector/indentation grammar gives
\* exactly the paths that were rendered.
C8_TreeRoundTrip ==
    (ret.fn = "generateTreeString" /\ NonConflicting(arg)) =>
        /\ \A i \in 1..Len(TreeLines(ret.value)) :
               WellFormedLine(TreeLines(ret.value)[i])
        /\ ParseTree(ret.value) = Range(arg)

\* The round trip does hold when no segment is a property name inherited
\* from Object.prototype.
TreeRoundTripOwnKeys ==
    ( /\ ret.fn = "generateTreeString"
      /\ NonConflicting(arg)
      /\ \A p \in Range(arg) :
             \A i \in 1..Len(Split(p, SLASH)) :
                 Split(p, SLASH)[i] \notin OBJECT_PROTOTYPE_KEYS ) =>
        ParseTree(ret.value) = Range(arg)

----------------------------------------------------------------------------
(* Archive walker and App *)

MAX_FILE_SIZE_BYTES == 104857600

EMPTY_ARCHIVE_TREE == <<"(Empty Archive)">>

\* Bytes of an atom in UTF-8 and its length in UTF-16 code units.  E_ACUTE
\* is U+00E9, EURO is U+20AC, EMOJI is a character outside the basic plane;
\* every other content atom is one ASCII character.
Utf8Bytes(a) ==
    CASE a = "E_ACUTE" -> 2
      [] a = "EURO" -> 3
      [] a = "EMOJI" -> 4
      [] OTHER -> 1

Utf16Units(a) ==
    CASE a = "EMOJI" -> 2
      [] OTHER -> 1

\* textEncoder.encode(content).length
RECURSIVE Utf8Length(_)
Utf8Length(content) ==
    IF Len(content) = 0 THEN 0
    ELSE Utf8Bytes(Head(content)) + Utf8Length(Tail(content))

\* content.length, the size accounting of the earlier revision (part_001)
RECURSIVE StringLength(_)
StringLength(content) ==
    IF Len(content) = 0 THEN 0
    ELSE Utf16Units(Head(content)) + StringLength(Tail(content))

\* const byteLength = textEncoder.encode(content).length
ByteLength(content) == Utf8Length(content)

\* filename.split('.').pop() || ''
ExtensionOf(filename) ==
    LET e == Last(Split(filename, DOT))
    IN  IF e = <<>> THEN <<>> ELSE e

\* The earlier revision has no check for an empty zip.
NeverEmptyZip(totalFiles) == FALSE

\* if (totalFiles === 0)
IsEmptyZip(totalFiles) == totalFiles = 0

\* A plausible slip: the shouldIgnore test left out of the loop.
SurvivesWithoutIgnore(zipEntry) ==
    IF zipEntry.dir THEN FALSE
    ELSE isTextFile(zipEntry.path)

\* Lines 141-144: the entry is neither skipped by a continue nor by the if.
Survives(zipEntry) ==
    IF zipEntry.dir THEN FALSE
    ELSE IF shouldIgnore(zipEntry.path) THEN FALSE
    ELSE isTextFile(zipEntry.path)

\* 10 + Math.floor((processedCount / totalFiles) * 80), with the quotient
\* taken exactly.  In the code the quotient is a double: it is exactly 1 on
\* the final entry, and elsewhere rounding keeps the order of the values and
\* their range 10..90.
LoopProgress(count, totalFiles) == 10 + ((count * 80) \div totalFiles)

PROGRESS_BATCH == 5

\* The condition of the earlier revision (part_001): every tenth entry, and
\* nothing on the final one.
EmitsProgressEarlier(count, totalFiles) == count % 10 = 0

EmitsProgress(count, totalFiles) ==
    totalFiles > 0 /\ (count % PROGRESS_BATCH = 0 \/ count = totalFiles)

\* Math.ceil(totalSize / 4)
TokenEstimate(size) == (size + 3) \div 4

\* file.name.replace(/\.zip$/i, '')
StripZip(name) ==
    IF /\ Len(name) >= 2
       /\ name[Len(name) - 1] = DOT
       /\ ToLowerAtom(name[Len(name)]) = "zip"
    THEN SubSeq(name, 1, Len(name) - 2)
    ELSE name

\* A plausible slip: the catch handler updating the previous state instead
\* of replacing it.
CatchStateKeepPrev(message) ==
    [state EXCEPT !.status = "ERROR", !.error = message]

\* The state set by the catch block of handleProcess (lines 124-129).
CatchState(message) ==
    [status |-> "ERROR", progress |-> 0, error |-> message,
     resultUrl |-> NoUrl, fileName |-> NoName, stats |-> NoStats]

\* The entries an archive may hold, by path: a directory, text files with
\* and without extension, an ignored file, a binary file, and a text file
\* whose compressed data cannot be decoded.
EntryPool ==
    { [path |-> <<"src", SLASH>>, dir |-> TRUE, content |-> <<>>,
       corrupt |-> FALSE],
      [path |-> <<"src", SLASH, "main", DOT, "ts">>, dir |-> FALSE,
       content |-> <<"h", "e", "l", "l", "o">>, corrupt |-> FALSE],
      [path |-> <<"node_modules", SLASH, "main", DOT, "ts">>, dir |-> FALSE,
       content |-> <<"x">>, corrupt |-> FALSE],
      [path |-> <<"logo", DOT, "png">>, dir |-> FALSE,
       content |-> <<"EMOJI">>, corrupt |-> FALSE],
      [path |-> <<"Dockerfile">>, dir |-> FALSE,
       content |-> <<"E_ACUTE", "x">>, corrupt |-> FALSE],
      [path |-> <<"lib", DOT, "d", SLASH, "Makefile">>, dir |-> FALSE,
       content |-> <<"EURO">>, corrupt |-> FALSE],
      [path |-> <<"README", DOT, "md">>, dir |-> FALSE,
       content |-> <<TICK, TICK, TICK, TICK, NL, "EMOJI">>,
       corrupt |-> FALSE],
      [path |-> <<"src", SLASH, "bad", DOT, "ts">>, dir |-> FALSE,
       content |-> <<>>, corrupt |-> TRUE] }

MaxEntries == 3

\* Object.keys(loadedZip.files): the entries in enumeration order, no path
\* twice.
Archives ==
    { es \in UNION { [1..n -> EntryPool] : n \in 0..MaxEntries } :
        \A i \in 1..Len(es), j \in 1..Len(es) :
            i # j => es[i].path # es[j].path }

FILE_NAME == <<"repo", DOT, "zip">>

Files ==
    { [name |-> FILE_NAME, size |-> MAX_FILE_SIZE_BYTES + 1,
       corrupt |-> FALSE, entries |-> <<>>],
      [name |-> FILE_NAME, size |-> MAX_FILE_SIZE_BYTES,
       corrupt |-> TRUE, entries |-> <<>>] }
    \cup { [name |-> FILE_NAME, size |-> MAX_FILE_SIZE_BYTES,
            corrupt |-> FALSE, entries |-> es] : es \in Archives }

Init ==
    /\ AppInit
    /\ PureIdle

\* handleProcess up to its first await (part_002 lines 71-92), with
\* processZipFile up to zip.loadAsync (part_000 lines 99-104).
HandleProcess(f) ==
    /\ pc = "idle"
    /\ state.status = "IDLE"
    /\ IF f.size > MAX_FILE_SIZE_BYTES
       THEN /\ state' = [status |-> "ERROR", progress |-> 0,
                         error |-> "FileTooLarge", resultUrl |-> NoUrl,
                         fileName |-> NoName, stats |-> NoStats]
            /\ UNCHANGED <<pc, file, progressLog>>
       ELSE /\ state' = [status |-> "READING_ZIP", progress |-> 5,
                         error |-> NoError, resultUrl |-> NoUrl,
                         fileName |-> f.name, stats |-> NoStats]
            /\ file' = f
            /\ progressLog' = <<5>>
            /\ pc' = "loadAsync"
    /\ UNCHANGED <<files, paths, totalSize, processedCount, result, blob,
                   pureVars>>

\* zip.loadAsync settles (part_000 lines 103-129): the archive cannot be
\* opened and the error reaches the catch of handleProcess, or the archive
\* is empty and the walker returns at once, or the loop is entered.
LoadAsync ==
    /\ pc = "loadAsync"
    /\ IF file.corrupt
       THEN /\ state' = CatchState("CannotOpenZip")
            /\ pc' = "idle"
            /\ UNCHANGED <<files, paths, totalSize, processedCount,
                           progressLog, result>>
       ELSE /\ files' = <<>>
            /\ paths' = <<>>
            /\ totalSize' = 0
            /\ IF IsEmptyZip(Len(file.entries))
               THEN /\ progressLog' = Append(progressLog, 100)
                    /\ state' = [state EXCEPT !.progress = 100]
                    /\ result' = [files |-> <<>>,
                                  tree |-> EMPTY_ARCHIVE_TREE,
                                  stats |-> [fileCount |-> 0,
                                             totalSize |-> 0,
                                             tokenEstimate |-> 0]]
                    /\ pc' = "resolved"
                    /\ UNCHANGED processedCount
               ELSE /\ processedCount' = 0
                    /\ progressLog' = Append(progressLog, 10)
                    /\ state' = [state EXCEPT !.progress = 10]
                    /\ pc' = "loop"
                    /\ UNCHANGED result
    /\ UNCHANGED <<file, blob, pureVars>>

\* One iteration of the for loop (part_000 lines 131-157); a failing
\* zipEntry.async rejects processZipFile and reaches the catch of
\* handleProcess.
WalkEntry ==
    /\ pc = "loop"
    /\ processedCount < Len(file.entries)
    /\ LET totalFiles == Len(file.entries)
           count == processedCount + 1
           zipEntry == file.entries[count]
           emits == EmitsProgress(count, totalFiles)
           progress == LoopProgress(count, totalFiles)
       IN  /\ processedCount' = count
           /\ progressLog' = IF emits THEN Append(progressLog, progress)
                             ELSE progressLog
           /\ IF Survives(zipEntry)
              THEN IF zipEntry.corrupt
                   THEN /\ paths' = Append(paths, zipEntry.path)
                        /\ state' = CatchState("DecodeFailed")
                        /\ pc' = "idle"
                        /\ UNCHANGED <<files, totalSize>>
                   ELSE /\ paths' = Append(paths, zipEntry.path)
                        /\ totalSize' = totalSize
                                          + ByteLength(zipEntry.content)
                        /\ files' = Append(files,
                               [path |-> zipEntry.path,
                                content |-> zipEntry.content,
                                extension |-> ExtensionOf(zipEntry.path)])
                        /\ state' = IF emits
                                    THEN [state EXCEPT !.progress = progress]
                                    ELSE state
                        /\ UNCHANGED pc
              ELSE /\ state' = IF emits
                               THEN [state EXCEPT !.progress = progress]
                               ELSE state
                   /\ UNCHANGED <<pc, files, paths, totalSize>>
    /\ UNCHANGED <<file, result, blob, pureVars>>

\* After the loop (part_000 lines 159-169)
WalkReturn ==
    /\ pc = "loop"
    /\ processedCount = Len(file.entries)
    /\ result' = [files |-> files,
                  tree |-> generateTreeString(paths),
                  stats |-> [fileCount |-> Len(files),
                             totalSize |-> totalSize,
                             tokenEstimate |-> TokenEstimate(totalSize)]]
    /\ pc' = "resolved"
    /\ UNCHANGED <<state, file, files, paths, totalSize, processedCount,
                   progressLog, blob, pureVars>>

\* handleProcess resumes with the walker result (part_002 lines 97-103)
GenerateMd ==
    /\ pc = "resolved"
    /\ state' = [state EXCEPT !.status = "GENERATING_MD", !.progress = 95,
                              !.stats = result.stats]
    /\ pc' = "generating"
    /\ UNCHANGED <<file, files, paths, totalSize, processedCount,
                   progressLog, result, blob, pureVars>>

\* part_002 lines 106-120
Complete ==
    /\ pc = "generating"
    /\ LET repoName == StripZip(file.name)
       IN  /\ blob' = createMarkdownContent(repoName, result.tree,
                                            result.files)
           /\ state' = [status |-> "COMPLETED", progress |-> 100,
                        error |-> NoError, resultUrl |-> "blob:url",
                        fileName |-> repoName \o <<"_packed", DOT, "md">>,
                        stats |-> result.stats]
    /\ pc' = "idle"
    /\ UNCHANGED <<file, files, paths, totalSize, processedCount,
                   progressLog, result, pureVars>>

\* reset (part_002 lines 133-142); the finished run is dropped with it.
Reset ==
    /\ pc = "idle"
    /\ state.status \in {"ERROR", "COMPLETED"}
    /\ state' = IdleState
    /\ file' = NoFile
    /\ files' = <<>>
    /\ paths' = <<>>
    /\ totalSize' = 0
    /\ processedCount' = 0
    /\ progressLog' = <<>>
    /\ result' = NoResult
    /\ blob' = NoBlob
    /\ UNCHANGED <<pc, pureVars>>

Next ==
    \/ \E f \in Files : HandleProcess(f)
    \/ LoadAsync
    \/ WalkEntry
    \/ WalkReturn
    \/ GenerateMd
    \/ Complete
    \/ Reset

Spec == Init /\ [][Next]_vars

----------------------------------------------------------------------------
(* Claims about the walker and the App *)

\* The entries of the archive that are no directory, are not ignored and
\* are text, in enumeration order.
PassingEntries(entries) ==
    SelectSeq(entries,
              LAMBDA e : ~e.dir /\ ~shouldIgnore(e.path) /\ isTextFile(e.path))

\* C5: the files processZipFile returns are exactly the entries that are no
\* directory, are not ignored and are text, each once, in enumeration order,
\* with the entry path verbatim.
C5_FilesAreThePassingEntries ==
    pc = "resolved" =>
        LET passing == PassingEntries(file.entries)
        IN  /\ Len(result.files) = Len(passing)
            /\ \A i \in 1..Len(passing) :
                   /\ result.files[i].path = passing[i].path
                   /\ result.files[i].content = passing[i].content

\* Two files returned from an archive that also holds an ignored entry.
C5_Witness ==
    /\ pc = "resolved"
    /\ Len(result.files) = 2
    /\ \E i \in 1..Len(file.entries) :
           ~file.entries[i].dir /\ shouldIgnore(file.entries[i].path)

RECURSIVE SumUtf8(_)
SumUtf8(fs) ==
    IF Len(fs) = 0 THEN 0
    ELSE Utf8Length(Head(fs).content) + SumUtf8(Tail(fs))

\* C6: totalSize is the sum of the UTF-8 byte lengths of the contents of the
\* returned files, fileCount is their number and tokenEstimate is
\* ceil(totalSize / 4): 0 <= 4 * tokenEstimate - totalSize <= 3.
C6_Stats ==
    pc = "resolved" =>
        /\ result.stats.totalSize = SumUtf8(result.files)
        /\ result.stats.fileCount = Len(result.files)
        /\ 4 * result.stats.tokenEstimate - result.stats.totalSize \in 0..3

\* Two returned files with characters of two and of three bytes: six bytes
\* for three characters.
C6_Witness ==
    /\ pc = "resolved"
    /\ Len(result.files) = 2
    /\ result.stats.totalSize = 6
    /\ StringLength(result.files[1].content)
         + StringLength(result.files[2].content) = 3
    /\ result.stats.tokenEstimate = 2

\* C7: the extension of every returned file is the text after the final dot
\* of the basename of its path, and is empty when the basename has no dot.
C7_ExtensionOfBasename ==
    pc = "resolved" =>
        \A i \in 1..Len(result.files) :
            LET base == FinalSegment(result.files[i].path)
            IN  result.files[i].extension =
                    IF \E k \in 1..Len(base) : base[k] = DOT
                    THEN AfterFinalDot(base)
                    ELSE <<>>

\* The next step of the run fails: the archive cannot be opened, or the
\* content of the entry the loop is at cannot be decoded.
RunFails ==
    \/ pc = "loadAsync" /\ file.corrupt
    \/ /\ pc = "loop"
       /\ processedCount < Len(file.entries)
       /\ LET e == file.entries[processedCount + 1]
          IN  /\ ~e.dir
              /\ ~shouldIgnore(e.path)
              /\ isTextFile(e.path)
              /\ e.corrupt

NothingDelivered ==
    /\ state.status = "ERROR"
    /\ state.progress = 0
    /\ state.stats = NoStats
    /\ state.resultUrl = NoUrl
    /\ result = NoResult
    /\ blob = NoBlob

\* C9: when the archive cannot be opened or an entry cannot be decoded, the
\* run delivers nothing: processZipFile resolves with no result, whatever it
\* had accumulated, and the App is left in status ERROR with progress 0 and
\* neither stats nor resultUrl; no state in status ERROR holds any of them.
C9_AllOrNothing ==
    [][ /\ RunFails => NothingDelivered'
        /\ state'.status = "ERROR" => NothingDelivered' ]_vars

\* A run that failed on an entry after a file had been accumulated.
C9_Witness ==
    /\ state.status = "ERROR"
    /\ state.error = "DecodeFailed"
    /\ Len(files) >= 1
    /\ result = NoResult

\* C10: for an archive without entries processZipFile returns no files, the
\* tree (Empty Archive) and zero stats, and the progress callback is called
\* with 100 right after the opening value, with no value of the walking
\* range in between.
C10_EmptyArchive ==
    ( /\ pc \in {"resolved", "generating"}
      /\ Len(file.entries) = 0 ) =>
        /\ pc = "resolved" => state.progress = 100
        /\ result = [files |-> <<>>, tree |-> EMPTY_ARCHIVE_TREE,
                     stats |-> [fileCount |-> 0, totalSize |-> 0,
                                tokenEstimate |-> 0]]
        /\ progressLog = <<5, 100>>

\* The walker has resolved for an archive without entries.
C10_Witness ==
    /\ pc = "resolved"
    /\ Len(file.entries) = 0
    /\ state.progress = 100

----------------------------------------------------------------------------
(* Specification SpecProgress: the App and the walker on archives long     *)
(* enough for the batched progress calls: at most one entry of EntryPool   *)
(* followed by at most MaxFillers entries that are not text.               *)

MaxFillers == 10

FillerEntry(i) ==
    [path |-> <<"assets", SLASH, "img", ToString(i), DOT, "png">>,
     dir |-> FALSE, content |-> <<"EMOJI">>, corrupt |-> FALSE]

ProgressArchives ==
    { head \o [i \in 1..n |-> FillerEntry(i)] :
        head \in UNION { [1..k -> EntryPool] : k \in 0..1 },
        n \in 0..MaxFillers }

ProgressFiles ==
    { [name |-> FILE_NAME, size |-> MAX_FILE_SIZE_BYTES,
       corrupt |-> FALSE, entries |-> es] : es \in ProgressArchives }

ProgressNext ==
    \/ \E f \in ProgressFiles : HandleProcess(f)
    \/ LoadAsync
    \/ WalkEntry
    \/ WalkReturn
    \/ GenerateMd
    \/ Complete
    \/ Reset

SpecProgress == Init /\ [][ProgressNext]_vars

NonDecreasing(log) ==
    \A i \in 1..Len(log), j \in 1..Len(log) : i <= j => log[i] <= log[j]

\* The loop is about to process the final entry of the archive.
AtFinalEntry ==
    /\ pc = "loop"
    /\ processedCount + 1 = Len(file.entries)

\* C11: in one run of processZipFile the percents passed to onProgress never
\* decrease and lie in 0..100, and processing the final entry makes a
\* progress call, with 90, whether or not the number of entries is a
\* multiple of the batching step.
C11_ProgressMonotone ==
    [][ /\ NonDecreasing(progressLog')
        /\ \A i \in 1..Len(progressLog') : progressLog'[i] \in 0..100
        /\ AtFinalEntry =>
              /\ Len(progressLog') = Len(progressLog) + 1
              /\ Last(progressLog') = 90 ]_vars

\* Seven entries walked: one batched call on the fifth entry and the call
\* on the final one.
C11_Witness ==
    /\ pc = "loop"
    /\ Len(file.entries) = 7
    /\ processedCount = 7
    /\ progressLog = <<5, 10, 67, 90>>

\* A step of a run that is still on its way to COMPLETED.
RunStep == state'.status \in {"READING_ZIP", "GENERATING_MD", "COMPLETED"}

\* C12: in a run that ends in status COMPLETED the successive values of
\* state.progress never decrease, the empty archive included, and the walker
\* reports no value above the 95 of the packing phase.
C12_AppProgressMonotone ==
    [][ /\ RunStep => state'.progress >= state.progress
        /\ \A i \in 1..Len(progressLog') : progressLog'[i] <= 95 ]_vars

\* The same holds of every run on an archive that has entries.
AppProgressMonotoneNonEmpty ==
    [][ (file' # NoFile /\ Len(file'.entries) > 0) =>
            /\ RunStep => state'.progress >= state.progress
            /\ \A i \in 1..Len(progressLog') : progressLog'[i] <= 95 ]_vars

\* The decrease alone: the step from the 100 of the walker to the 95 of
\* GENERATING_MD.
AppProgressNeverDecreases ==
    [][ RunStep => state'.progress >= state.progress ]_vars

============================================================================
